---- MODULE Spec2Model ----
(***************************************************************************)
(* Persistence layer of the activity provider: JsonFileDatabase (the flat  *)
(* JSON file with write-to-temporary-then-replace), PersistenceProxy (the  *)
(* one-second snapshot cache with flush on every write), InstanceManager   *)
(* (the registry) and the facade use cases built on them.                  *)
(*                                                                         *)
(* Python values: None is the empty tuple and a present Optional value x   *)
(* is <<x>>; a dict is a function on its key set; a list is a sequence.    *)
(* Wall-clock time is counted in whole seconds.                            *)
(***************************************************************************)
EXTENDS Integers, Sequences, FiniteSets, TLC

VARIABLES
    fs,         \* the directory of the data file: inodes and the two paths
    heap,       \* snapshot dicts alive in the process, by object identity
    cache,      \* PersistenceProxy._cache: an object of heap, 0 for None
    cache_ts,   \* PersistenceProxy._cache_ts
    now,        \* the wall clock read by time.time() and utcnow()
    registry,   \* InstanceManager._registry
    th,         \* per request thread: the proxy call in progress and its locals
    last,       \* history: the last completed call, its outcome and result
    appended,   \* history: the events whose append_event call returned
    upserted,   \* history: per instance id, the payload of the last upsert that returned
    written,    \* history: the snapshots handed to write_all so far
    im,         \* the InstanceManager class: _instance and the objects built
    mt,         \* per thread: its InstanceManager() call in progress and the object it got
    registered  \* history: the activities whose set_instance_id call returned

vars == <<fs, heap, cache, cache_ts, now, registry, th, last, appended, upserted, written,
          im, mt, registered>>

-----------------------------------------------------------------------------
(* Bounds of the model *)

MaxTime == 2

MaxEvents == 2

\* the tokens of a failing write that may still reach the temporary file
MaxPartial == 1

\* the tokens one write(2) of a request thread carries to the file
ChunkTokens == 2

\* the track_game_access calls of one run of the facade
MaxTracks == 3

(* Program constant: the freshness window of _ensure_cache, in seconds *)
TTL == 1

-----------------------------------------------------------------------------
(* Values *)

None == <<>>

Some(x) == <<x>>

Activities == {"A", "B"}

UserIds == {"u1"}

\* the instance id without its prefix
InstId_bare(activity_id) == activity_id

\* f"inst_{activity_id}"
InstId(activity_id) == "inst_" \o activity_id

InstanceIds == {InstId(a) : a \in Activities}

\* the activity of the example scenario
ScenarioActivity == "TESTE123"

Threads == {1, 2}

EmptySnapshot == [instances |-> <<>>, events |-> <<>>]

\* builder.build(): the constant game configuration
GameConfig == [size |-> 10, words |-> <<"APSI", "INVENIRA", "FACADE", "ADAPTER", "PROXY">>, seed |-> 42]

\* datetime.utcnow().isoformat() + "Z": a text that determines the instant
IsoZ(t) == <<"iso", t, "Z">>

\* the payload with the activity id in the place of the instance id
NewInstance_unprefixed(instance_id, activity_id, t) ==
    [instance_id  |-> activity_id,
     activityID   |-> activity_id,
     created_at   |-> IsoZ(t),
     game_config  |-> GameConfig,
     last_access  |-> None,
     access_count |-> 0]

\* the payload of lines 169-176 and 312-319 of the facade
NewInstance(instance_id, activity_id, t) ==
    [instance_id  |-> instance_id,
     activityID   |-> activity_id,
     created_at   |-> IsoZ(t),
     game_config  |-> GameConfig,
     last_access  |-> None,
     access_count |-> 0]

AccessEvent(activity_id, user_id, t) ==
    [ts |-> IsoZ(t), type |-> "game_access", activityID |-> Some(activity_id), userID |-> user_id]

\* The payloads and events the proxy-level calls are tried with
Payloads(instance_id) ==
    {[NewInstance(instance_id, a, 0) EXCEPT !.access_count = c] :
        a \in {a \in Activities : InstId(a) = instance_id}, c \in 0..1}

ProxyEvents == {AccessEvent("A", Some("u1"), 0), AccessEvent("A", None, 0), AccessEvent("B", Some("u1"), 0)}

OptActivities == {None} \cup {Some(a) : a \in Activities}

OptUsers == {None} \cup {Some(u) : u \in UserIds}

Min(a, b) == IF a <= b THEN a ELSE b

-----------------------------------------------------------------------------
(* JSON text.  The file holds a sequence of tokens: an opening brace, one   *)
(* token per entry of "instances", one per element of "events", a closing   *)
(* brace.  A text cut short, or mixed from two writes, does not parse.      *)

TokOpen == <<"{">>

TokClose == <<"}">>

TokNul == <<"NUL">>

RECURSIVE SetToSeq(_)
SetToSeq(S) ==
    IF S = {} THEN <<>>
    ELSE LET x == CHOOSE y \in S : TRUE IN <<x>> \o SetToSeq(S \ {x})

\* json.dump(data, f, ...)
JsonDump(data) ==
    LET keys == SetToSeq(DOMAIN data.instances)
    IN  <<TokOpen>>
        \o [j \in 1..Len(keys) |-> <<"i", keys[j], data.instances[keys[j]]>>]
        \o [j \in 1..Len(data.events) |-> <<"e", data.events[j]>>]
        \o <<TokClose>>

\* json.load(f): ok is FALSE where json raises JSONDecodeError
JsonLoad(text) ==
    LET n == Len(text)
        inner == 2..(n - 1)
        wellformed ==
            /\ n >= 2
            /\ text[1] = TokOpen
            /\ text[n] = TokClose
            /\ \A j \in inner : text[j][1] \in {"i", "e"}
            /\ \A j, k \in inner : (j < k /\ text[j][1] = "e") => text[k][1] = "e"
        IsInst(tok) == tok[1] = "i"
        IsEvent(tok) == tok[1] = "e"
        body == SubSeq(text, 2, n - 1)
        itoks == SelectSeq(body, IsInst)
        etoks == SelectSeq(body, IsEvent)
        keys == {itoks[j][2] : j \in DOMAIN itoks}
        LastOf(k) == CHOOSE j \in DOMAIN itoks :
                        /\ itoks[j][2] = k
                        /\ \A m \in DOMAIN itoks : itoks[m][2] = k => m <= j
    IN  IF wellformed
        THEN [ok |-> TRUE,
              data |-> [instances |-> [k \in keys |-> itoks[LastOf(k)][3]],
                        events |-> [j \in 1..Len(etoks) |-> etoks[j][2]]]]
        ELSE [ok |-> FALSE, data |-> EmptySnapshot]

-----------------------------------------------------------------------------
(* The file system: fs.ino maps each live inode to its content, fs.dir maps *)
(* the data file's path ("store") and filepath + ".tmp" ("tmp") to an inode *)
(* or 0 when the path does not exist.                                       *)

NoFiles == [ino |-> <<>>, dir |-> [store |-> 0, tmp |-> 0]]

FreshIno(f) ==
    CHOOSE i \in 1..(Cardinality(DOMAIN f.ino) + 1) :
        /\ i \notin DOMAIN f.ino
        /\ \A j \in 1..(i - 1) : j \in DOMAIN f.ino

\* Inodes stay alive while a path or an open descriptor in `held` names them
Collect(f, held) ==
    LET live == ({f.dir.store, f.dir.tmp} \cup held) \ {0}
    IN  [f EXCEPT !.ino = [i \in (DOMAIN f.ino) \cap live |-> f.ino[i]]]

\* open(path, "w"): create the file, or truncate the one that is there
OpenW(f, path) ==
    IF f.dir[path] = 0
    THEN LET i == FreshIno(f)
         IN  [ino |-> [j \in (DOMAIN f.ino) \cup {i} |-> IF j = i THEN <<>> ELSE f.ino[j]],
              dir |-> [f.dir EXCEPT ![path] = i]]
    ELSE [f EXCEPT !.ino[f.dir[path]] = <<>>]

\* write(2) of toks at offset pos of inode i; a gap reads as NULs
WriteAt(f, i, pos, toks) ==
    LET old == f.ino[i]
        n == IF Len(old) > pos + Len(toks) THEN Len(old) ELSE pos + Len(toks)
    IN  [f EXCEPT !.ino[i] =
            [j \in 1..n |->
                IF j > pos /\ j <= pos + Len(toks) THEN toks[j - pos]
                ELSE IF j <= Len(old) THEN old[j]
                ELSE TokNul]]

\* os.replace(tmp, self.filepath); the caller checks that tmp exists
Replace(f, held) ==
    Collect([f EXCEPT !.dir = [store |-> f.dir.tmp, tmp |-> 0]], held)

\* With no descriptor open, inode numbers carry no information: the data
\* file is renumbered 1 and the temporary file 2.
Canon(f) ==
    [ino |-> [i \in {j \in {1, 2} : (j = 1 /\ f.dir.store # 0) \/ (j = 2 /\ f.dir.tmp # 0)} |->
                 IF i = 1 THEN f.ino[f.dir.store] ELSE f.ino[f.dir.tmp]],
     dir |-> [store |-> IF f.dir.store # 0 THEN 1 ELSE 0,
              tmp |-> IF f.dir.tmp # 0 THEN 2 ELSE 0]]

StoreText(f) == IF f.dir.store = 0 THEN <<>> ELSE f.ino[f.dir.store]

\* The files with the data file gone (os.path.exists(filepath) is False); a
\* temporary file left behind stays
Unlink(f) == Canon(Collect([f EXCEPT !.dir.store = 0], {}))

-----------------------------------------------------------------------------
(* JsonFileDatabase, one call at a time.  A fault names where the operating  *)
(* system fails the call: a read fails with "io"; a write fails at "open",  *)
(* at "write" after k tokens reached the file, or at "replace".             *)

NoReadFault == {"none"}

ReadFaults == {"none", "io"}

NoWriteFault == {<<"none", 0>>}

WriteFaults ==
    {<<"none", 0>>, <<"open", 0>>, <<"replace", 0>>} \cup {<<"write", k>> : k \in 0..MaxPartial}

\* _read / read_all
read_all(f, fault) ==
    IF fault # "none" \/ f.dir.store = 0
    THEN [ok |-> FALSE, data |-> EmptySnapshot]
    ELSE JsonLoad(f.ino[f.dir.store])

\* write_all writing the data file in place, with no temporary file
write_all_inplace(f, data, fault) ==
    IF fault[1] = "open" THEN [ok |-> FALSE, fs |-> f]
    ELSE LET f1 == OpenW(f, "store")
             text == JsonDump(data)
         IN  IF fault[1] = "write"
             THEN [ok |-> FALSE,
                   fs |-> Canon(WriteAt(f1, f1.dir.store, 0, SubSeq(text, 1, Min(fault[2], Len(text) - 1))))]
             ELSE [ok |-> fault[1] = "none", fs |-> Canon(WriteAt(f1, f1.dir.store, 0, text))]

\* _write / write_all
write_all(f, data, fault) ==
    IF fault[1] = "open" THEN [ok |-> FALSE, fs |-> f]
    ELSE
        LET f1 == OpenW(f, "tmp")
            text == JsonDump(data)
        IN  IF fault[1] = "write"
            THEN [ok |-> FALSE,
                  fs |-> Canon(WriteAt(f1, f1.dir.tmp, 0, SubSeq(text, 1, Min(fault[2], Len(text) - 1))))]
            ELSE LET f2 == WriteAt(f1, f1.dir.tmp, 0, text)
                 IN  IF fault[1] = "replace"
                     THEN [ok |-> FALSE, fs |-> Canon(f2)]
                     ELSE [ok |-> TRUE, fs |-> Canon(Replace(f2, {}))]

\* __init__ without the os.path.exists test: every construction writes the
\* empty snapshot
JsonFileDatabase_always(f) == write_all(f, EmptySnapshot, <<"none", 0>>).fs

\* JsonFileDatabase.__init__: the file is created on first use only
JsonFileDatabase(f) ==
    IF f.dir.store = 0 THEN write_all(f, EmptySnapshot, <<"none", 0>>).fs ELSE f

-----------------------------------------------------------------------------
(* PersistenceProxy, one call at a time.  A call works on w: the files, the *)
(* cached snapshot c (None or <<snapshot>>), its timestamp ts, whether the  *)
(* store was read, and err: "" or the step at which the store failed.       *)

World ==
    [fs |-> fs,
     c |-> IF cache = 0 THEN None ELSE Some(heap[cache]),
     ts |-> cache_ts,
     read |-> FALSE,
     err |-> ""]

\* the freshness test with >= for >
Stale_inclusive(c, ts, t) == c = None \/ (t - ts) >= TTL

Stale(c, ts, t) == c = None \/ (t - ts) > TTL

\* _ensure_cache that reads the store a second time when the first read fails
ensure_cache_retry(w, t, rf) ==
    IF Stale(w.c, w.ts, t)
    THEN LET r == read_all(w.fs, rf)
             r2 == IF r.ok THEN r ELSE read_all(w.fs, "none")
         IN  IF r2.ok
             THEN [w EXCEPT !.c = Some(r2.data), !.ts = t, !.read = TRUE]
             ELSE [w EXCEPT !.read = TRUE, !.err = "refresh"]
    ELSE w

\* _ensure_cache
ensure_cache(w, t, rf) ==
    IF Stale(w.c, w.ts, t)
    THEN LET r == read_all(w.fs, rf)
         IN  IF r.ok
             THEN [w EXCEPT !.c = Some(r.data), !.ts = t, !.read = TRUE]
             ELSE [w EXCEPT !.read = TRUE, !.err = "refresh"]
    ELSE w

\* _flush that only refreshes the timestamp
flush_nowrite(w, t, wf) == IF w.c # None THEN [w EXCEPT !.ts = t] ELSE w

\* _flush
flush(w, t, wf) ==
    IF w.c # None
    THEN LET r == write_all(w.fs, w.c[1], wf)
         IN  IF r.ok
             THEN [w EXCEPT !.fs = r.fs, !.ts = t]
             ELSE [w EXCEPT !.fs = r.fs, !.err = "flush"]
    ELSE w

\* dict.get(key): None when the key is absent
Lookup(d, key) == IF key \in DOMAIN d THEN Some(d[key]) ELSE None

\* d[key] = value
SetItem(d, key, value) == [k \in (DOMAIN d) \cup {key} |-> IF k = key THEN value ELSE d[k]]

\* get_instance indexing the dict (instances[instance_id]): an absent id raises
get_instance_getitem(w, t, instance_id, rf) ==
    LET w1 == ensure_cache(w, t, rf)
    IN  IF w1.err = "" /\ instance_id \notin DOMAIN w1.c[1].instances
        THEN [w |-> [w1 EXCEPT !.err = "lookup"], ret |-> None]
        ELSE [w |-> w1,
              ret |-> IF w1.err = "" THEN Some(Lookup(w1.c[1].instances, instance_id)) ELSE None]

\* get_instance: the final world and the value returned
get_instance(w, t, instance_id, rf) ==
    LET w1 == ensure_cache(w, t, rf)
    IN  [w |-> w1,
         ret |-> IF w1.err = "" THEN Some(Lookup(w1.c[1].instances, instance_id)) ELSE None]

\* upsert_instance that keeps an entry already there (setdefault for assignment)
upsert_instance_keep(w, t, instance_id, payload, rf, wf) ==
    LET w1 == ensure_cache(w, t, rf)
    IN  IF w1.err # "" THEN w1
        ELSE flush([w1 EXCEPT !.c = Some([w1.c[1] EXCEPT
                        !.instances = IF instance_id \in DOMAIN w1.c[1].instances
                                      THEN w1.c[1].instances
                                      ELSE SetItem(w1.c[1].instances, instance_id, payload)])],
                   t, wf)

\* upsert_instance that counts the writes of a record already there
upsert_instance_counting(w, t, instance_id, payload, rf, wf) ==
    LET w1 == ensure_cache(w, t, rf)
    IN  IF w1.err # "" THEN w1
        ELSE flush([w1 EXCEPT !.c = Some([w1.c[1] EXCEPT
                        !.instances = SetItem(w1.c[1].instances, instance_id,
                            IF instance_id \in DOMAIN w1.c[1].instances
                            THEN [payload EXCEPT !.access_count =
                                     w1.c[1].instances[instance_id].access_count + 1]
                            ELSE payload)])],
                   t, wf)

\* upsert_instance
upsert_instance(w, t, instance_id, payload, rf, wf) ==
    LET w1 == ensure_cache(w, t, rf)
    IN  IF w1.err # "" THEN w1
        ELSE flush([w1 EXCEPT !.c = Some([w1.c[1] EXCEPT
                        !.instances = SetItem(w1.c[1].instances, instance_id, payload)])],
                   t, wf)

\* append_event that flushes before it appends
append_event_late(w, t, event, rf, wf) ==
    LET w1 == ensure_cache(w, t, rf)
        w2 == IF w1.err # "" THEN w1 ELSE flush(w1, t, wf)
    IN  IF w2.err # "" THEN w2
        ELSE [w2 EXCEPT !.c = Some([w2.c[1] EXCEPT !.events = Append(w2.c[1].events, event)])]

\* append_event
append_event(w, t, event, rf, wf) ==
    LET w1 == ensure_cache(w, t, rf)
    IN  IF w1.err # "" THEN w1
        ELSE flush([w1 EXCEPT !.c = Some([w1.c[1] EXCEPT
                        !.events = Append(w1.c[1].events, event)])],
                   t, wf)

\* Python truth of an Optional[str]: None and "" are false
Truthy(o) == o # None /\ o # Some("")

\* the loop of list_events
RECURSIVE FilterEvents(_, _, _)
FilterEvents(events, activity_id, user_id) ==
    IF events = <<>> THEN <<>>
    ELSE LET e == Head(events)
             rest == FilterEvents(Tail(events), activity_id, user_id)
         IN  IF Truthy(activity_id) /\ e.activityID # activity_id THEN rest
             ELSE IF Truthy(user_id) /\ e.userID # user_id THEN rest
             ELSE <<e>> \o rest

\* list_events that drops the user filter
list_events_nouser(w, t, activity_id, user_id, rf) ==
    LET w1 == ensure_cache(w, t, rf)
    IN  [w |-> w1,
         ret |-> IF w1.err = "" THEN Some(FilterEvents(w1.c[1].events, activity_id, None))
                 ELSE None]

\* list_events
list_events(w, t, activity_id, user_id, rf) ==
    LET w1 == ensure_cache(w, t, rf)
    IN  [w |-> w1,
         ret |-> IF w1.err = "" THEN Some(FilterEvents(w1.c[1].events, activity_id, user_id))
                 ELSE None]

-----------------------------------------------------------------------------
(* State *)

\* time.time() at process start is far beyond the initial _cache_ts of 0.0
Epoch == TTL + 1

\* A request thread between calls: no call, no snapshot in hand, no file open
IdleThread ==
    [pc |-> "idle", op |-> "", arg |-> <<>>, data |-> 0, loaded |-> EmptySnapshot,
     wref |-> 0, text |-> <<>>, fd |-> 0, pos |-> 0, ret |-> None]

\* cold: the proxy held no snapshot when the call began; again: the call
\* repeats the upsert_instance that returned just before it, same id and record
NoCall ==
    [op |-> "init", args |-> <<>>, res |-> "init", ret |-> None, read |-> FALSE, cold |-> FALSE,
     again |-> FALSE]

\* A thread that has not called InstanceManager() yet
NoManager == [pc |-> "idle", self |-> 0, ret |-> None]

\* create_app: JsonFileDatabase(data_path), PersistenceProxy(db), InstanceManager().
\* The manager built here is object 1 of the class; the facade reaches its
\* _registry as the variable registry.
Init ==
    /\ im = [instance |-> 1, objs |-> <<Some(<<>>)>>]
    /\ mt = [t \in Threads |-> NoManager]
    /\ registered = {}
    /\ fs = JsonFileDatabase(NoFiles)
    /\ heap = <<>>
    /\ cache = 0
    /\ cache_ts = 0
    /\ now = Epoch
    /\ registry = <<>>
    /\ th = [t \in Threads |-> IdleThread]
    /\ last = NoCall
    /\ appended = <<>>
    /\ upserted = [i \in InstanceIds \cup {InstId(ScenarioActivity)} |-> None]
    /\ written = {}

\* The world a call ends in becomes the state: one snapshot object is alive
Commit(w) ==
    /\ fs' = w.fs
    /\ cache' = IF w.c = None THEN 0 ELSE 1
    /\ heap' = IF w.c = None THEN <<>> ELSE <<w.c[1]>>
    /\ cache_ts' = w.ts

Outcome(w) == IF w.err = "" THEN "ok" ELSE w.err

\* the clock advances between calls
Tick ==
    /\ now < Epoch + MaxTime
    /\ now' = now + 1
    /\ UNCHANGED <<fs, heap, cache, cache_ts, registry, th, last, appended, upserted, written, im, mt, registered>>

\* a process restart: create_app builds a new database object, proxy and registry
Restart ==
    /\ fs' = JsonFileDatabase(fs)
    /\ cache' = 0
    /\ heap' = <<>>
    /\ cache_ts' = 0
    /\ registry' = <<>>
    /\ last' = NoCall
    /\ UNCHANGED <<now, th, appended, upserted, written, im, mt, registered>>

\* The faults the store can show to a call begun now, as pairs <<rf, wf>>.  The
\* call reads the store only when its snapshot is stale, and reaches write_all
\* only when it mutates and its read did not fail; a fault on a store call that
\* is not made shows nothing.
Faults(I, mutating) ==
    {<<"none", wf>> : wf \in IF mutating THEN I.wf ELSE {<<"none", 0>>}}
    \cup (IF Stale(World.c, cache_ts, now)
          THEN {<<rf, <<"none", 0>>>> : rf \in I.rf \ {"none"}}
          ELSE {})

GetInstance(I) ==
    \E instance_id \in I.ids, F \in Faults(I, FALSE) :
        \E r \in {get_instance(World, now, instance_id, F[1])} :
            /\ Commit(r.w)
            /\ last' = [op |-> "get_instance", args |-> <<instance_id>>, res |-> Outcome(r.w),
                        ret |-> r.ret, read |-> r.w.read, cold |-> cache = 0, again |-> FALSE]
            /\ UNCHANGED <<now, registry, th, appended, upserted, written, im, mt, registered>>

UpsertInstance(I) ==
    \E instance_id \in I.ids, F \in Faults(I, TRUE) :
        \E payload \in Payloads(instance_id) :
            \E w \in {upsert_instance(World, now, instance_id, payload, F[1], F[2])} :
                /\ Commit(w)
                /\ last' = [op |-> "upsert_instance", args |-> <<instance_id, payload>>,
                            res |-> Outcome(w), ret |-> None, read |-> w.read, cold |-> cache = 0,
                            again |-> /\ w.err = ""
                                      /\ last.op = "upsert_instance"
                                      /\ last.res = "ok"
                                      /\ last.args = <<instance_id, payload>>]
                /\ upserted' = [upserted EXCEPT ![instance_id] =
                                    IF w.err = "" THEN Some(payload) ELSE None]
                /\ UNCHANGED <<now, registry, th, appended, written, im, mt, registered>>

AppendEvent(I) ==
    \E event \in I.events, F \in Faults(I, TRUE) :
        \E w \in {append_event(World, now, event, F[1], F[2])} :
            /\ w.c # None => Len(w.c[1].events) <= MaxEvents
            /\ Commit(w)
            /\ last' = [op |-> "append_event", args |-> <<event>>, res |-> Outcome(w),
                        ret |-> None, read |-> w.read, cold |-> cache = 0, again |-> FALSE]
            /\ appended' = IF w.err = "" THEN Append(appended, event) ELSE appended
            /\ UNCHANGED <<now, registry, th, upserted, written, im, mt, registered>>

ListEvents(I) ==
    \E activity_id \in I.acts, user_id \in I.users, F \in Faults(I, FALSE) :
        \E r \in {list_events(World, now, activity_id, user_id, F[1])} :
            /\ Commit(r.w)
            /\ last' = [op |-> "list_events", args |-> <<activity_id, user_id>>,
                        res |-> Outcome(r.w), ret |-> r.ret, read |-> r.w.read, cold |-> cache = 0, again |-> FALSE]
            /\ UNCHANGED <<now, registry, th, appended, upserted, written, im, mt, registered>>

\* I: the inputs the calls are tried with and the faults the store may show
ProxyNext(I) ==
    \/ Tick
    \/ Restart
    \/ GetInstance(I)
    \/ UpsertInstance(I)
    \/ AppendEvent(I)
    \/ ListEvents(I)

AllInputs ==
    [ids |-> InstanceIds, events |-> ProxyEvents, acts |-> OptActivities, users |-> OptUsers,
     rf |-> NoReadFault, wf |-> NoWriteFault]

\* Sequential proxy calls, the store never failing
Next == ProxyNext(AllInputs)

Spec == Init /\ [][Next]_vars

\* Sequential proxy calls, the store failing where the environment chooses
FaultInputs ==
    [ids |-> {InstId("A")}, events |-> {AccessEvent("A", Some("u1"), 0)},
     acts |-> {None}, users |-> {None},
     rf |-> ReadFaults, wf |-> WriteFaults]

NextFail == ProxyNext(FaultInputs)

SpecFail == Init /\ [][NextFail]_vars

-----------------------------------------------------------------------------
(* ActivityProviderFacade, one handler at a time, the store never failing.  *)
(* The identifiers are those the ContractAdapter lets through: trimmed and, *)
(* for the activity, non-empty.  A handler result r holds the final world   *)
(* w, the registry reg, the clock t when it ends and the value returned.    *)

NoFault == <<"none", 0>>

\* _effective_base_url with neither public_base_url nor BASE_URL set, and the
\* entry_url of lines 179-188
EntryUrl(activity_id, user_id) ==
    IF Truthy(user_id)
    THEN "/game/" \o activity_id \o "?userID=" \o user_id[1]
    ELSE "/game/" \o activity_id

\* resolve_user_url that writes a new record whether or not one exists
resolve_user_url_overwrite(w, reg, t, d, activity_id, user_id) ==
    LET known == Lookup(reg, activity_id)
        instance_id == IF known = None THEN InstId(activity_id) ELSE known[1]
        reg1 == IF known = None THEN SetItem(reg, activity_id, instance_id) ELSE reg
        g == get_instance(w, t, instance_id, "none")
        payload == NewInstance(instance_id, activity_id, t + d)
        w2 == upsert_instance(g.w, t + d, instance_id, payload, "none", <<"none", 0>>)
    IN  [w |-> w2, reg |-> reg1, t |-> t + d,
         ret |-> Some([activityID |-> activity_id,
                       entry_url |-> "/game/" \o activity_id,
                       instance_id |-> instance_id]),
         up |-> Some(<<instance_id, payload>>)]

\* resolve_user_url that logs every resolution as an event
resolve_user_url_logged(w, reg, t, d, activity_id, user_id) ==
    LET known == Lookup(reg, activity_id)
        instance_id == IF known = None THEN InstId(activity_id) ELSE known[1]
        reg1 == IF known = None THEN SetItem(reg, activity_id, instance_id) ELSE reg
        g == get_instance(w, t, instance_id, "none")
        payload == NewInstance(instance_id, activity_id, t + d)
        w2 == IF g.ret[1] = None
              THEN upsert_instance(g.w, t + d, instance_id, payload, "none", <<"none", 0>>)
              ELSE g.w
        w3 == append_event(w2, t + d, [AccessEvent(activity_id, user_id, t + d) EXCEPT !.type = "resolve"],
                           "none", <<"none", 0>>)
    IN  [w |-> w3, reg |-> reg1, t |-> t + d,
         ret |-> Some([activityID |-> activity_id,
                       entry_url |-> EntryUrl(activity_id, user_id),
                       instance_id |-> instance_id]),
         up |-> IF g.ret[1] = None THEN Some(<<instance_id, payload>>) ELSE None]

\* resolve_user_url; d is the time that passes between its two proxy calls
resolve_user_url(w, reg, t, d, activity_id, user_id) ==
    LET known == Lookup(reg, activity_id)
        instance_id == IF known = None THEN InstId(activity_id) ELSE known[1]
        reg1 == IF known = None THEN SetItem(reg, activity_id, instance_id) ELSE reg
        g == get_instance(w, t, instance_id, "none")
        result == Some([activityID |-> activity_id,
                        entry_url |-> EntryUrl(activity_id, user_id),
                        instance_id |-> instance_id])
    IN  IF g.w.err # "" THEN [w |-> g.w, reg |-> reg1, t |-> t, ret |-> None, up |-> None]
        ELSE IF g.ret[1] = None
        THEN LET payload == NewInstance(instance_id, activity_id, t + d)
                 w2 == upsert_instance(g.w, t + d, instance_id, payload, "none", NoFault)
             IN  [w |-> w2, reg |-> reg1, t |-> t + d,
                  ret |-> IF w2.err = "" THEN result ELSE None,
                  up |-> IF w2.err = "" THEN Some(<<instance_id, payload>>) ELSE None]
        ELSE [w |-> g.w, reg |-> reg1, t |-> t, ret |-> result, up |-> None]

\* lines 321-322 with = 1 for + 1
Accessed_reset(instance, t) ==
    [instance EXCEPT !.access_count = 1, !.last_access = Some(IsoZ(t))]

\* lines 321-322 of track_game_access
Accessed(instance, t) ==
    [instance EXCEPT !.access_count = instance.access_count + 1, !.last_access = Some(IsoZ(t))]

\* track_game_access whose default id differs from the one resolve_user_url gives
track_game_access_otherid(w, reg, t, d1, d2, activity_id, user_id) ==
    LET known == Lookup(reg, activity_id)
        instance_id == IF known # None /\ known[1] # "" THEN known[1]
                       ELSE "inst_" \o activity_id \o "_game"
        g == get_instance(w, t, instance_id, "none")
        found == g.ret[1]
        instance == [(IF found = None THEN NewInstance(instance_id, activity_id, t) ELSE found[1])
                        EXCEPT !.access_count = @ + 1, !.last_access = Some(IsoZ(t))]
        w2 == upsert_instance(g.w, t + d1, instance_id, instance, "none", <<"none", 0>>)
        event == AccessEvent(activity_id, user_id, t + d1 + d2)
        w3 == append_event(w2, t + d1 + d2, event, "none", <<"none", 0>>)
    IN  [w |-> w3, t |-> t + d1 + d2, up |-> None, ev |-> Some(event)]

\* track_game_access whose new record starts with access_count 1 before line 321
track_game_access_countfirst(w, reg, t, d1, d2, activity_id, user_id) ==
    LET known == Lookup(reg, activity_id)
        instance_id == IF known # None /\ known[1] # "" THEN known[1] ELSE InstId(activity_id)
        g == get_instance(w, t, instance_id, "none")
        found == g.ret[1]
        instance == Accessed(IF found = None
                             THEN [NewInstance(instance_id, activity_id, t) EXCEPT !.access_count = 1]
                             ELSE found[1], t)
        w1 == IF found = None THEN g.w
              ELSE [g.w EXCEPT !.c = Some([g.w.c[1] EXCEPT
                        !.instances = SetItem(g.w.c[1].instances, instance_id, instance)])]
        w2 == upsert_instance(w1, t + d1, instance_id, instance, "none", <<"none", 0>>)
        event == AccessEvent(activity_id, user_id, t + d1 + d2)
        w3 == append_event(w2, t + d1 + d2, event, "none", <<"none", 0>>)
    IN  [w |-> w3, t |-> t + d1 + d2, up |-> Some(<<instance_id, instance>>), ev |-> Some(event)]

\* track_game_access; d1 and d2 are the times that pass before its second and
\* third proxy call.  A record found by get_instance is the cached dict itself,
\* so lines 321-322 change the cached snapshot in place.
track_game_access(w, reg, t, d1, d2, activity_id, user_id) ==
    LET known == Lookup(reg, activity_id)
        instance_id == IF known # None /\ known[1] # "" THEN known[1] ELSE InstId(activity_id)
        g == get_instance(w, t, instance_id, "none")
        found == g.ret[1]
        instance == Accessed(IF found = None THEN NewInstance(instance_id, activity_id, t)
                             ELSE found[1], t)
        w1 == IF found = None THEN g.w
              ELSE [g.w EXCEPT !.c = Some([g.w.c[1] EXCEPT
                        !.instances = SetItem(g.w.c[1].instances, instance_id, instance)])]
        w2 == upsert_instance(w1, t + d1, instance_id, instance, "none", NoFault)
        event == AccessEvent(activity_id, user_id, t + d1 + d2)
        w3 == append_event(w2, t + d1 + d2, event, "none", NoFault)
    IN  IF g.w.err # "" THEN [w |-> g.w, t |-> t, up |-> None, ev |-> None]
        ELSE IF w2.err # "" THEN [w |-> w2, t |-> t + d1, up |-> None, ev |-> None]
        ELSE [w |-> w3, t |-> t + d1 + d2, up |-> Some(<<instance_id, instance>>),
              ev |-> IF w3.err = "" THEN Some(event) ELSE None]

\* between two proxy calls a handler runs on, or is held up beyond the TTL
Delays == {0, TTL + 1}

ResolveUserUrl(activity_id, user_id) ==
    \E d \in Delays :
        /\ now + d <= Epoch + MaxTime
        /\ \E r \in {resolve_user_url(World, registry, now, d, activity_id, user_id)} :
            /\ Commit(r.w)
            /\ registry' = r.reg
            /\ now' = r.t
            /\ last' = [op |-> "resolve_user_url", args |-> <<activity_id, user_id>>,
                        res |-> Outcome(r.w), ret |-> r.ret, read |-> r.w.read, cold |-> cache = 0, again |-> FALSE]
            /\ upserted' = IF r.up = None THEN upserted
                           ELSE [upserted EXCEPT ![r.up[1][1]] = Some(r.up[1][2])]
            /\ UNCHANGED <<th, appended, written, im, mt, registered>>

\* the events the data file holds
StoredEvents == read_all(fs, "none").data.events

TrackGameAccess(activity_id, user_id) ==
    \E d1, d2 \in Delays :
        /\ now + d1 + d2 <= Epoch + MaxTime
        /\ Len(StoredEvents) < MaxTracks
        /\ \E r \in {track_game_access(World, registry, now, d1, d2, activity_id, user_id)} :
            /\ Commit(r.w)
            /\ now' = r.t
            /\ last' = [op |-> "track_game_access", args |-> <<activity_id, user_id>>,
                        res |-> Outcome(r.w), ret |-> None, read |-> r.w.read, cold |-> cache = 0, again |-> FALSE]
            /\ upserted' = IF r.up = None THEN upserted
                           ELSE [upserted EXCEPT ![r.up[1][1]] = Some(r.up[1][2])]
            /\ appended' = IF r.ev = None THEN appended ELSE Append(appended, r.ev[1])
            /\ UNCHANGED <<registry, th, written, im, mt, registered>>

\* the game page is opened through the entry_url of a named user
Players == {Some(u) : u \in UserIds}

FacadeNext ==
    \/ Tick
    \/ \E a \in Activities, u \in OptUsers : ResolveUserUrl(a, u)
    \/ \E a \in Activities, u \in Players : TrackGameAccess(a, u)

\* Sequential facade handlers, the store never failing
SpecFacade == Init /\ [][FacadeNext]_vars

\* the registry is lost: the manager's _registry is an empty dict again
ClearRegistry ==
    /\ registry # <<>>
    /\ registry' = <<>>
    /\ last' = [NoCall EXCEPT !.op = "clear_registry", !.res = "ok"]
    /\ UNCHANGED <<fs, heap, cache, cache_ts, now, th, appended, upserted, written, im, mt, registered>>

RegistryNext ==
    \/ Tick
    \/ ClearRegistry
    \/ \E a \in Activities, u \in Players : ResolveUserUrl(a, u)
    \/ \E a \in Activities, u \in Players : TrackGameAccess(a, u)

\* Sequential facade handlers with the registry lost at any point
SpecRegistry == Init /\ [][RegistryNext]_vars

\* The example scenario: one activity, resolved and then played by user u1
ScenarioNext ==
    \/ Tick
    \/ \E u \in OptUsers : ResolveUserUrl(ScenarioActivity, u)
    \/ TrackGameAccess(ScenarioActivity, Some("u1"))

SpecScenario == Init /\ [][ScenarioNext]_vars

-----------------------------------------------------------------------------
(* Analytics.  A text is the sequence of its parts, " " standing for white  *)
(* space, so that strip() is computed.  The /analytics endpoint adapts the  *)
(* request and calls the facade, whose query_analytics answers with a fixed *)
(* dataset; AnalyticsPersistenceProxy filters its own in-memory rows by the *)
(* query name.  Neither reads the store.                                    *)

\* str.strip()
RECURSIVE LStrip(_)
LStrip(s) == IF s # <<>> /\ Head(s) = " " THEN LStrip(Tail(s)) ELSE s

RECURSIVE RStrip(_)
RStrip(s) == IF s # <<>> /\ s[Len(s)] = " " THEN RStrip(SubSeq(s, 1, Len(s) - 1)) ELSE s

Strip(s) == RStrip(LStrip(s))

\* the query of a request body: absent, empty, blank, padded, or a bare name
RawQueries ==
    {None, Some(<<>>), Some(<<" ">>), Some(<<"default">>), Some(<<" ", "events_count", " ">>),
     Some(<<"all">>), Some(<<"comment">>), Some(<<"bogus">>), Some(<<"x", " ", "y">>)}

\* the activities analytics are asked for: the one played and one never played
AnalyticsActivities == {ScenarioActivity, "A"}

\* adapt_analytics_request, line 37: (req.query or "default").strip() or "default"
adapt_query(query) ==
    LET given == IF query = None \/ query = Some(<<>>) THEN <<"default">> ELSE query[1]
    IN  IF Strip(given) = <<>> THEN <<"default">> ELSE Strip(given)

adapt_analytics_request(activityID, userID, query) ==
    [activityID |-> activityID, userID |-> userID, query |-> adapt_query(query)]

\* 42.5 is Tenths(425)
Tenths(n) == [tenths |-> n]

Metric(name, value) == [name |-> name, value |-> value]

\* mock_data of query_analytics, lines 248-285
MockData ==
    << [inveniraStdID |-> 1001,
        quantAnalytics |-> << Metric("tentativas_total", 5),
                              Metric("tentativas_corretas", 4),
                              Metric("tentativas_erradas", 1),
                              Metric("tempo_medio_por_acerto_s", Tenths(425)),
                              Metric("percentual_acertos", 80),
                              Metric("percentual_erros", 20) >>,
        qualAnalytics |-> << Metric("ultima_palavra_encontrada", "house"),
                             Metric("sequencia_cliques",
                                    <<"h(1,1)", "o(1,2)", "u(1,3)", "s(1,4)", "e(1,5)">>) >>],
       [inveniraStdID |-> 1002,
        quantAnalytics |-> << Metric("tentativas_total", 3),
                              Metric("tentativas_corretas", 1),
                              Metric("tentativas_erradas", 2),
                              Metric("tempo_medio_por_acerto_s", 60),
                              Metric("percentual_acertos", Tenths(333)),
                              Metric("percentual_erros", Tenths(667)) >>,
        qualAnalytics |-> << Metric("ultima_palavra_encontrada", "cat"),
                             Metric("sequencia_cliques", <<"c(2,1)", "a(2,2)", "t(2,3)">>) >>] >>

\* the names list_analytics offers, lines 207-220
ListedAnalytics ==
    {"ultima_palavra_encontrada", "sequencia_cliques", "tentativas_total", "tentativas_corretas",
     "tentativas_erradas", "tempo_medio_por_acerto_s", "percentual_acertos", "percentual_erros"}

\* query_analytics rejecting a query name it does not know
query_analytics_strict(w, t, payload) ==
    IF payload.query = <<"default">> \/ \E n \in ListedAnalytics : payload.query = <<n>>
    THEN [w |-> w, ret |-> Some(MockData)]
    ELSE [w |-> [w EXCEPT !.err = "query"], ret |-> None]

\* query_analytics: the final world and the list returned; the payload holds
\* "activityID", and neither the query nor the store is looked at
query_analytics(w, t, payload) == [w |-> w, ret |-> Some(MockData)]

\* the response of the /analytics_url handler, main.py line 248
analytics_url(w, t, activityID, userID, query) ==
    LET payload == adapt_analytics_request(activityID, userID, query)
        r == query_analytics(w, t, payload)
    IN  [w |-> r.w,
         ret |-> IF r.w.err # "" THEN None
                 ELSE Some([activityID |-> payload.activityID, query |-> payload.query,
                            result |-> r.ret[1]])]

\* _mock_students_by_activity, lines 21-39: each row in the order of its keys
MockStudents(activity_id) ==
    IF activity_id = "TESTE123"
    THEN << << <<"inveniraStdID", "1001">>, <<"events_count", 15>>, <<"completed_words", 10>>,
               <<"hints_used", 2>>,
               <<"comment", "Aluno terminou a sopa com pequenas dificuldades.">> >>,
            << <<"inveniraStdID", "1002">>, <<"events_count", 8>>, <<"completed_words", 5>>,
               <<"hints_used", 0>>,
               <<"comment", "Aluno abandonou a meio.">> >> >>
    ELSE <<>>

QuantKeys == {"events_count", "completed_words", "hints_used"}

TypedMetric(name, type, value) == [name |-> name, type |-> type, value |-> value]

\* the loop over row.items(), lines 68-94: the values of one kind that the
\* query name selects
RECURSIVE RowValues(_, _, _)
RowValues(items, name, quant) ==
    IF items = <<>> THEN <<>>
    ELSE LET key == Head(items)[1]
             value == Head(items)[2]
             rest == RowValues(Tail(items), name, quant)
             kind == IF key = "inveniraStdID" THEN "id"
                     ELSE IF key \in QuantKeys THEN "quant"
                     ELSE IF key = "comment" THEN "qual"
                     ELSE "other"
             selected == name = <<"all">> \/ name = <<key>>
         IN  IF kind = "quant" /\ quant /\ selected
             THEN <<TypedMetric(key, "integer", value)>> \o rest
             ELSE IF kind = "qual" /\ ~quant /\ selected
             THEN <<TypedMetric("comment", "text/plain", value)>> \o rest
             ELSE rest

\* row.get("inveniraStdID")
RECURSIVE RowGet(_, _)
RowGet(items, key) ==
    IF items = <<>> THEN None
    ELSE IF Head(items)[1] = key THEN Some(Head(items)[2])
    ELSE RowGet(Tail(items), key)

\* get_analytics_for_activity that treats an unknown name as "all"
get_analytics_for_activity_all(activity_id, name) ==
    LET raw_list == MockStudents(activity_id)
    IN  [k \in DOMAIN raw_list |->
            [inveniraStdID |-> RowGet(raw_list[k], "inveniraStdID"),
             quantAnalytics |-> RowValues(raw_list[k], <<"all">>, TRUE),
             qualAnalytics |-> RowValues(raw_list[k], <<"all">>, FALSE)]]

\* AnalyticsPersistenceProxy.get_analytics_for_activity
get_analytics_for_activity(activity_id, name) ==
    LET raw_list == MockStudents(activity_id)
    IN  [k \in DOMAIN raw_list |->
            [inveniraStdID |-> RowGet(raw_list[k], "inveniraStdID"),
             quantAnalytics |-> RowValues(raw_list[k], name, TRUE),
             qualAnalytics |-> RowValues(raw_list[k], name, FALSE)]]

\* POST /analytics_url
AnalyticsUrl(activityID, userID, query) ==
    \E r \in {analytics_url(World, now, activityID, userID, query)} :
        /\ Commit(r.w)
        /\ last' = [op |-> "query_analytics", args |-> <<activityID, userID, query>>,
                    res |-> Outcome(r.w), ret |-> r.ret, read |-> r.w.read, cold |-> cache = 0,
                    again |-> FALSE]
        /\ UNCHANGED <<now, registry, th, appended, upserted, written, im, mt, registered>>

\* a call of AnalyticsPersistenceProxy.get_analytics_for_activity
GetAnalyticsForActivity(activity_id, query) ==
    /\ last' = [op |-> "get_analytics_for_activity", args |-> <<activity_id, query>>,
                res |-> "ok", ret |-> Some(get_analytics_for_activity(activity_id, adapt_query(query))),
                read |-> FALSE, cold |-> cache = 0, again |-> FALSE]
    /\ UNCHANGED <<fs, heap, cache, cache_ts, now, registry, th, appended, upserted, written, im, mt, registered>>

AnalyticsNext ==
    \/ Tick
    \/ \E u \in OptUsers : ResolveUserUrl(ScenarioActivity, u)
    \/ TrackGameAccess(ScenarioActivity, Some("u1"))
    \/ \E a \in AnalyticsActivities, u \in OptUsers, q \in RawQueries : AnalyticsUrl(a, u, q)
    \/ \E a \in AnalyticsActivities, q \in RawQueries : GetAnalyticsForActivity(a, q)

\* The scenario's handlers with analytics queries in between
SpecAnalytics == Init /\ [][AnalyticsNext]_vars

-----------------------------------------------------------------------------
(* Request threads.  The server runs each handler on a worker thread, and   *)
(* the proxy takes no lock, so the calls of two threads interleave between  *)
(* the statements of _ensure_cache, the mutation, _flush and _write.  Each  *)
(* thread makes one proxy call; pc names the statement it executes next.    *)

ConcOps == {"get_instance", "list_events", "upsert_instance", "append_event"}

Mutators == {"upsert_instance", "append_event"}

\* the instance a thread writes: distinct threads write distinct ids
ThreadActivity(t) == IF t = 1 THEN "A" ELSE "B"

ThreadArg(t, op) ==
    CASE op = "get_instance" -> <<InstId("A")>>
      [] op = "list_events" -> <<None, None>>
      [] op = "upsert_instance" ->
            <<InstId(ThreadActivity(t)), NewInstance(InstId(ThreadActivity(t)), ThreadActivity(t), 0)>>
      [] op = "append_event" -> <<AccessEvent(ThreadActivity(t), None, 0)>>

HeldInodes(T) == {T[t].fd : t \in Threads}

\* the snapshot objects still referenced by the proxy or by a thread's local
LiveObjects(c, T) == ({c} \cup {T[t].data : t \in Threads} \cup {T[t].wref : t \in Threads}) \ {0}

FreshObject(h) ==
    CHOOSE o \in 1..(Cardinality(DOMAIN h) + 1) :
        /\ o \notin DOMAIN h
        /\ \A j \in 1..(o - 1) : j \in DOMAIN h

Reclaim(h, c, T) == [o \in (DOMAIN h) \cap LiveObjects(c, T) |-> h[o]]

SeqHistory == <<registry, last, appended, upserted>>

\* a handler enters a proxy method
CCall(t) ==
    /\ th[t].pc = "idle"
    /\ \E op \in ConcOps :
        th' = [th EXCEPT ![t] = [IdleThread EXCEPT !.pc = "ensure", !.op = op, !.arg = ThreadArg(t, op)]]
    /\ UNCHANGED <<fs, heap, cache, cache_ts, now, written, SeqHistory, im, mt, registered>>

\* _ensure_cache: the test of line 18
CCheck(t) ==
    /\ th[t].pc = "ensure"
    /\ th' = [th EXCEPT ![t].pc =
                IF Stale(IF cache = 0 THEN None ELSE Some(heap[cache]), cache_ts, now)
                THEN "read" ELSE "return"]
    /\ UNCHANGED <<fs, heap, cache, cache_ts, now, written, SeqHistory, im, mt, registered>>

\* _ensure_cache: self._db.read_all() of line 19; an error ends the call
CRead(t) ==
    /\ th[t].pc = "read"
    /\ \E r \in {read_all(fs, "none")} :
        th' = [th EXCEPT ![t].pc = IF r.ok THEN "assign" ELSE "failed",
                         ![t].loaded = r.data]
    /\ UNCHANGED <<fs, heap, cache, cache_ts, now, written, SeqHistory, im, mt, registered>>

\* _ensure_cache: the assignment to self._cache of line 19
CAssign(t) ==
    /\ th[t].pc = "assign"
    /\ \E o \in {FreshObject(heap)} :
        /\ cache' = o
        /\ th' = [th EXCEPT ![t].pc = "stamp", ![t].loaded = EmptySnapshot]
        /\ heap' = Reclaim([j \in (DOMAIN heap) \cup {o} |-> IF j = o THEN th[t].loaded ELSE heap[j]],
                           o, th')
    /\ UNCHANGED <<fs, cache_ts, now, written, SeqHistory, im, mt, registered>>

\* _ensure_cache: line 20
CStamp(t) ==
    /\ th[t].pc = "stamp"
    /\ cache_ts' = now
    /\ th' = [th EXCEPT ![t].pc = "return"]
    /\ UNCHANGED <<fs, heap, cache, now, written, SeqHistory, im, mt, registered>>

\* _ensure_cache: return self._cache, bound to the caller's local data
CReturn(t) ==
    /\ th[t].pc = "return"
    /\ th' = [th EXCEPT ![t].pc = "use", ![t].data = cache]
    /\ UNCHANGED <<fs, heap, cache, cache_ts, now, written, SeqHistory, im, mt, registered>>

\* the body of the method on data: the lookup, the filter, or the mutation
CUse(t) ==
    /\ th[t].pc = "use"
    /\ LET d == heap[th[t].data]
           a == th[t].arg
       IN  CASE th[t].op = "get_instance" ->
                  /\ th' = [th EXCEPT ![t].pc = "done", ![t].data = 0,
                                   ![t].ret = Some(Lookup(d.instances, a[1]))]
                  /\ heap' = Reclaim(heap, cache, th')
             [] th[t].op = "list_events" ->
                  /\ th' = [th EXCEPT ![t].pc = "done", ![t].data = 0,
                                   ![t].ret = Some(FilterEvents(d.events, a[1], a[2]))]
                  /\ heap' = Reclaim(heap, cache, th')
             [] th[t].op = "upsert_instance" ->
                  /\ th' = [th EXCEPT ![t].pc = "flush", ![t].data = 0]
                  /\ heap' = Reclaim([heap EXCEPT ![th[t].data].instances = SetItem(d.instances, a[1], a[2])],
                                     cache, th')
             [] th[t].op = "append_event" ->
                  /\ th' = [th EXCEPT ![t].pc = "flush", ![t].data = 0]
                  /\ heap' = Reclaim([heap EXCEPT ![th[t].data].events = Append(d.events, a[1])],
                                     cache, th')
    /\ UNCHANGED <<fs, cache, cache_ts, now, written, SeqHistory, im, mt, registered>>

\* _flush: the test of line 24 and the argument self._cache of line 25
CFlush(t) ==
    /\ th[t].pc = "flush"
    /\ th' = [th EXCEPT ![t].pc = IF cache # 0 THEN "open" ELSE "done", ![t].wref = cache]
    /\ UNCHANGED <<fs, heap, cache, cache_ts, now, written, SeqHistory, im, mt, registered>>

\* _write: open(tmp, "w") and the serialisation of the snapshot by json.dump
COpen(t) ==
    /\ th[t].pc = "open"
    /\ \E f \in {OpenW(fs, "tmp")} :
        /\ fs' = f
        /\ th' = [th EXCEPT ![t].pc = "write", ![t].fd = f.dir.tmp, ![t].pos = 0,
                         ![t].text = JsonDump(heap[th[t].wref]), ![t].wref = 0]
    /\ written' = written \cup {heap[th[t].wref]}
    /\ heap' = Reclaim(heap, cache, th')
    /\ UNCHANGED <<cache, cache_ts, now, SeqHistory, im, mt, registered>>

\* _write: the text reaches the file chunk by chunk, at the descriptor's offset;
\* the file is closed after the last chunk
CWrite(t) ==
    /\ th[t].pc = "write"
    /\ LET n == Min(ChunkTokens, Len(th[t].text) - th[t].pos)
           f == WriteAt(fs, th[t].fd, th[t].pos, SubSeq(th[t].text, th[t].pos + 1, th[t].pos + n))
           finished == th[t].pos + n = Len(th[t].text)
       IN  /\ th' = [th EXCEPT ![t].pos = IF finished THEN 0 ELSE th[t].pos + n,
                            ![t].pc = IF finished THEN "replace" ELSE "write",
                            ![t].fd = IF finished THEN 0 ELSE th[t].fd,
                            ![t].text = IF finished THEN <<>> ELSE th[t].text]
           /\ fs' = Collect(f, HeldInodes(th'))
    /\ UNCHANGED <<heap, cache, cache_ts, now, written, SeqHistory, im, mt, registered>>

\* _write: os.replace(tmp, self.filepath); FileNotFoundError when tmp is gone
CReplace(t) ==
    /\ th[t].pc = "replace"
    /\ IF fs.dir.tmp = 0
       THEN /\ th' = [th EXCEPT ![t].pc = "failed"]
            /\ fs' = fs
       ELSE /\ th' = [th EXCEPT ![t].pc = "stamp2"]
            /\ fs' = Replace(fs, HeldInodes(th))
    /\ UNCHANGED <<heap, cache, cache_ts, now, written, SeqHistory, im, mt, registered>>

\* _flush: line 26
CStamp2(t) ==
    /\ th[t].pc = "stamp2"
    /\ cache_ts' = now
    /\ th' = [th EXCEPT ![t].pc = "done"]
    /\ UNCHANGED <<fs, heap, cache, now, written, SeqHistory, im, mt, registered>>

ConcNext ==
    \/ Tick
    \/ \E t \in Threads :
        \/ CCall(t)
        \/ CCheck(t)
        \/ CRead(t)
        \/ CAssign(t)
        \/ CStamp(t)
        \/ CReturn(t)
        \/ CUse(t)
        \/ CFlush(t)
        \/ COpen(t)
        \/ CWrite(t)
        \/ CReplace(t)
        \/ CStamp2(t)

\* Concurrent proxy calls of the request threads, the store never failing
SpecConc == Init /\ [][ConcNext]_vars

-----------------------------------------------------------------------------
(* InstanceManager used by several threads.  __new__ tests cls._instance,   *)
(* builds the object, gives it a registry and returns cls._instance, with   *)
(* no lock; a thread may be preempted between any two of these statements.  *)
(* im.objs[o] is None while object o has no _registry attribute yet.        *)

\* the module just imported: _instance = None (line 8), nothing built
ManagerInit ==
    /\ im = [instance |-> 0, objs |-> <<>>]
    /\ mt = [t \in Threads |-> NoManager]
    /\ registered = {}
    /\ fs = JsonFileDatabase(NoFiles)
    /\ heap = <<>>
    /\ cache = 0
    /\ cache_ts = 0
    /\ now = Epoch
    /\ registry = <<>>
    /\ th = [t \in Threads |-> IdleThread]
    /\ last = NoCall
    /\ appended = <<>>
    /\ upserted = [i \in InstanceIds \cup {InstId(ScenarioActivity)} |-> None]
    /\ written = {}

AppState == <<fs, heap, cache, cache_ts, now, registry, th, last, appended, upserted, written>>

\* a thread calls InstanceManager(), for the first time or again
MNew(t) ==
    /\ mt[t].pc \in {"idle", "ready"}
    /\ mt' = [mt EXCEPT ![t].pc = "check", ![t].ret = None]
    /\ UNCHANGED <<im, registered, AppState>>

\* __new__: if cls._instance is None (line 11)
MCheck(t) ==
    /\ mt[t].pc = "check"
    /\ mt' = [mt EXCEPT ![t].pc = IF im.instance = 0 THEN "alloc" ELSE "return"]
    /\ UNCHANGED <<im, registered, AppState>>

\* __new__: cls._instance = super().__new__(cls) (line 12)
MAlloc(t) ==
    /\ mt[t].pc = "alloc"
    /\ im' = [instance |-> Len(im.objs) + 1, objs |-> Append(im.objs, None)]
    /\ mt' = [mt EXCEPT ![t].pc = "init"]
    /\ UNCHANGED <<registered, AppState>>

\* __new__: cls._instance._registry = {} (line 13), on the object that
\* cls._instance names at this moment
MInit(t) ==
    /\ mt[t].pc = "init"
    /\ im' = [im EXCEPT !.objs[im.instance] = Some(<<>>)]
    /\ mt' = [mt EXCEPT ![t].pc = "return"]
    /\ UNCHANGED <<registered, AppState>>

\* __new__: return cls._instance (line 14)
MReturn(t) ==
    /\ mt[t].pc = "return"
    /\ mt' = [mt EXCEPT ![t].pc = "ready", ![t].self = im.instance]
    /\ UNCHANGED <<im, registered, AppState>>

\* set_instance_id(activity_id, "inst_" + activity_id); AttributeError when the
\* object has no _registry yet
MSet(t) ==
    /\ mt[t].pc = "ready"
    /\ \E a \in Activities :
        IF im.objs[mt[t].self] = None
        THEN /\ mt' = [mt EXCEPT ![t].pc = "failed"]
             /\ UNCHANGED <<im, registered>>
        ELSE /\ im' = [im EXCEPT !.objs[mt[t].self] =
                            Some(SetItem(im.objs[mt[t].self][1], a, InstId(a)))]
             /\ registered' = registered \cup {a}
             /\ mt' = [mt EXCEPT ![t].ret = None]
    /\ UNCHANGED AppState

\* get_instance_id(activity_id)
MGet(t) ==
    /\ mt[t].pc = "ready"
    /\ \E a \in Activities :
        IF im.objs[mt[t].self] = None
        THEN mt' = [mt EXCEPT ![t].pc = "failed"]
        ELSE mt' = [mt EXCEPT ![t].ret = Some(<<a, Lookup(im.objs[mt[t].self][1], a)>>)]
    /\ UNCHANGED <<im, registered, AppState>>

ManagerNext ==
    \E t \in Threads :
        \/ MNew(t)
        \/ MCheck(t)
        \/ MAlloc(t)
        \/ MInit(t)
        \/ MReturn(t)
        \/ MSet(t)
        \/ MGet(t)

\* Threads building and using InstanceManager from the freshly imported module
SpecManager == ManagerInit /\ [][ManagerNext]_vars

-----------------------------------------------------------------------------
(* Properties *)

CacheVal == IF cache = 0 THEN None ELSE Some(heap[cache])

\* C3: durability round trip.  After upsert_instance(id, R) has returned, the
\* first get_instance(id) of a brand-new proxy over the same file, which reads
\* the store, returns a record equal to R.
C3_DurabilityRoundTrip ==
    \A id \in InstanceIds :
        (last.op = "get_instance" /\ last.args = <<id>> /\ last.cold /\ last.res = "ok"
            /\ upserted[id] # None)
        => (last.read /\ last.ret = Some(upserted[id]))

C3_Witness ==
    /\ last.op = "get_instance" /\ last.cold /\ last.res = "ok"
    /\ upserted[last.args[1]] # None
    /\ last.ret = Some(upserted[last.args[1]])
    /\ last.ret[1][1].access_count = 1
    /\ Len(appended) > 0

\* C4: write atomicity under failure.  A write_all that fails, at the open of
\* the temporary file, part-way through writing it or at the replace, leaves
\* the data file exactly as it was, and read_all succeeds on it.
C4_WriteAtomic ==
    [][last'.res = "flush"
        => (StoreText(fs') = StoreText(fs) /\ read_all(fs', "none").ok)]_vars

C4_Witness ==
    /\ last.op = "upsert_instance" /\ last.res = "flush"
    /\ fs.dir.tmp # 0
    /\ fs.ino[fs.dir.tmp] = <<TokOpen>>
    /\ read_all(fs, "none").ok
    /\ DOMAIN read_all(fs, "none").data.instances # {}

\* C6: if the flush of upsert_instance or append_event fails, no in-memory
\* mutation is retained: the cached snapshot after the failed call is the one
\* the call started from (the cached one, or the one it read from the store).
C6_NoMutationRetained ==
    [][last'.res = "flush"
        => CacheVal' \in {CacheVal, Some(read_all(fs, "none").data)}]_vars

\* the instances the data file holds
StoredInstances(f) == read_all(f, "none").data.instances

\* the access_count the snapshot holds for the activity's instance, 0 without one
CountOf(instances, activity_id) ==
    IF Lookup(instances, InstId(activity_id)) = None THEN 0
    ELSE Lookup(instances, InstId(activity_id))[1].access_count

\* the instant of its last_access, before every instant when there is none
AccessOf(instances, activity_id) ==
    IF Lookup(instances, InstId(activity_id)) = None
       \/ Lookup(instances, InstId(activity_id))[1].last_access = None
    THEN 0
    ELSE Lookup(instances, InstId(activity_id))[1].last_access[1][2]

\* C7: every track_game_access on an activity raises the persisted
\* access_count of its instance by exactly one, from 0 when the record is new;
\* through any sequence of facade calls the persisted count never decreases and
\* the persisted last_access never moves back.
C7_MonotonicCounter ==
    [][\A old \in {StoredInstances(fs)}, new \in {StoredInstances(fs')} :
       \A a \in Activities :
          /\ CountOf(new, a) >= CountOf(old, a)
          /\ AccessOf(new, a) >= AccessOf(old, a)
          /\ (/\ last'.op = "track_game_access"
              /\ last'.args[1] = a
              /\ \E u \in OptUsers : TrackGameAccess(a, u))
                => /\ CountOf(new, a) = CountOf(old, a) + 1
                   /\ AccessOf(new, a) >= Epoch]_vars

\* two accesses of activity A counted, the second one later than the first
C7_Witness ==
    /\ last.op = "track_game_access"
    /\ last.args[1] = "A"
    /\ CountOf(StoredInstances(fs), "A") = 2
    /\ AccessOf(StoredInstances(fs), "A") > Epoch
    /\ Len(StoredEvents) = 2

\* C8: filter correctness.  list_events(activity_id, user_id) returns exactly
\* the appended events, in order, whose activityID equals the activity filter
\* when one is given and whose userID equals the user filter when one is given.
C8_FilterCorrect ==
    (last.op = "list_events" /\ last.res = "ok")
    => LET Matches(e) ==
               /\ (last.args[1] # None => e.activityID = last.args[1])
               /\ (last.args[2] # None => e.userID = last.args[2])
       IN  last.ret = Some(SelectSeq(appended, Matches))

C8_Witness ==
    /\ last.op = "list_events" /\ last.res = "ok"
    /\ last.args = <<Some("A"), Some("u1")>>
    /\ Len(appended) = 2
    /\ appended[1].userID = None
    /\ Len(last.ret[1]) = 1

C10_ReadAfterWrite ==
    \A id \in InstanceIds :
        (last.op = "get_instance" /\ last.args = <<id>> /\ ~last.cold /\ last.res = "ok"
            /\ upserted[id] # None)
        => last.ret = Some(upserted[id])

C10_Witness ==
    /\ last.op = "get_instance" /\ ~last.cold /\ last.res = "ok"
    /\ last.read
    /\ upserted[last.args[1]] # None
    /\ last.ret = Some(upserted[last.args[1]])

\* C1: no lost update.  Once N concurrent upsert_instance calls to distinct
\* instance ids have all returned, the data file holds every one of the N
\* records, whatever the interleaving of their refresh, mutate and flush steps.
C1_NoLostUpdate ==
    (\A t \in Threads : th[t].op = "upsert_instance" /\ th[t].pc = "done")
    => \E r \in {read_all(fs, "none")} :
           /\ r.ok
           /\ \A t \in Threads : Lookup(r.data.instances, th[t].arg[1]) = Some(th[t].arg[2])

\* a thread is inside the refresh -> mutate -> flush sequence of its call
InCall(t) == th[t].pc \notin {"idle", "ensure", "done", "failed"}

\* C2: mutual exclusion.  No two mutating calls (upsert_instance,
\* append_event) are inside their refresh -> mutate -> flush sequence at the
\* same time, and no read (get_instance, list_events) runs while a mutating
\* call is inside its sequence.
C2_MutualExclusion ==
    \A t1, t2 \in Threads :
        (t1 # t2 /\ th[t1].op \in Mutators /\ InCall(t1)) => ~InCall(t2)

\* C5: a reader never observes a partially written file.  At every point,
\* with any number of write_all calls in progress, read_all returns the
\* initial empty snapshot or a snapshot handed whole to some write_all.
C5_NoPartialRead ==
    \E r \in {read_all(fs, "none")} :
        /\ r.ok
        /\ r.data \in {EmptySnapshot} \cup written

\* a is an initial part of b
IsPrefix(a, b) == Len(a) <= Len(b) /\ SubSeq(b, 1, Len(a)) = a

\* C11: the event log is append-only and in append order.  Whenever the data
\* file is readable before and after a step of the proxy, the persisted event
\* sequence after the step is the sequence before it with events added only at
\* the end: none removed, reordered or modified.
C11_AppendOnly ==
    [][\A old \in {read_all(fs, "none")}, new \in {read_all(fs', "none")} :
          (old.ok /\ new.ok) => IsPrefix(old.data.events, new.data.events)]_vars

\* C12: idempotence of upsert.  A second upsert_instance(id, R) right after an
\* upsert_instance(id, R) that returned, however much time passed in between,
\* leaves the persisted snapshot, and the text of the data file, as the first
\* call left them.
C12_UpsertIdempotent ==
    [][(last'.again /\ UpsertInstance(AllInputs))
        => /\ read_all(fs', "none") = read_all(fs, "none")
           /\ StoreText(fs') = StoreText(fs)]_vars

\* the repeated call found its snapshot stale and re-read the store first
C12_Witness ==
    /\ last.op = "upsert_instance" /\ last.again /\ last.read
    /\ Lookup(StoredInstances(fs), last.args[1]) = Some(last.args[2])
    /\ Len(StoredEvents) > 0

\* C13: the example scenario.  From an empty store and registry,
\* resolve_user_url("TESTE123") persists an instance under inst_TESTE123 with
\* access_count 0 and returns that id; once the activity is resolved and
\* track_game_access("TESTE123", "u1") has returned three times, the instance
\* has access_count 3 and the log holds exactly three events, all of type
\* game_access for the activity and the user.
C13_Scenario ==
    \E inst \in {Lookup(StoredInstances(fs), "inst_TESTE123")}, events \in {StoredEvents} :
        /\ (last.op = "resolve_user_url" /\ appended = <<>>)
            => /\ last.ret = Some([activityID |-> "TESTE123",
                                   entry_url |-> EntryUrl("TESTE123", last.args[2]),
                                   instance_id |-> "inst_TESTE123"])
               /\ inst # None
               /\ inst[1].instance_id = "inst_TESTE123"
               /\ inst[1].activityID = "TESTE123"
               /\ inst[1].access_count = 0
               /\ events = <<>>
        /\ (registry # <<>> /\ Len(appended) = 3)
            => /\ inst # None
               /\ inst[1].instance_id = "inst_TESTE123"
               /\ inst[1].access_count = 3
               /\ Len(events) = 3
               /\ \A j \in 1..3 :
                    /\ events[j].type = "game_access"
                    /\ events[j].activityID = Some("TESTE123")
                    /\ events[j].userID = Some("u1")

\* the scenario has run to its end: resolved at the start, then three accesses
C13_Witness ==
    /\ last.op = "track_game_access"
    /\ Lookup(registry, "TESTE123") = Some("inst_TESTE123")
    /\ Len(appended) = 3
    /\ CountOf(StoredInstances(fs), "TESTE123") = 3
    /\ StoredInstances(fs)["inst_TESTE123"].created_at = IsoZ(Epoch)
    /\ AccessOf(StoredInstances(fs), "TESTE123") > Epoch

\* C14: instance identity.  In every state reached by resolve_user_url and
\* track_game_access, each persisted record stored under key K has
\* instance_id = K = "inst_" + its activityID, so no activity has two
\* instances; and a persisted key never comes to hold another activityID.
C14_InstanceIdentity ==
    /\ [](\A instances \in {StoredInstances(fs)} :
            \A K \in DOMAIN instances :
                /\ instances[K].instance_id = K
                /\ K = "inst_" \o instances[K].activityID
                /\ \A K2 \in DOMAIN instances :
                      instances[K2].activityID = instances[K].activityID => K2 = K)
    /\ [][\A old \in {StoredInstances(fs)}, new \in {StoredInstances(fs')} :
             \A K \in DOMAIN old :
                 K \in DOMAIN new => new[K].activityID = old[K].activityID]_vars

\* both activities have an instance, one created by resolve_user_url and not
\* yet played, the other played twice
C14_Witness ==
    /\ DOMAIN StoredInstances(fs) = {"inst_A", "inst_B"}
    /\ StoredInstances(fs)["inst_A"].access_count = 2
    /\ StoredInstances(fs)["inst_B"].access_count = 0
    /\ StoredInstances(fs)["inst_B"].activityID = "B"
    /\ last.op = "track_game_access"

\* C15: instance lifecycle.  Through any sequence of resolve_user_url and
\* track_game_access calls a persisted record is never deleted and keeps its
\* created_at and game_config; a record appears only where there was none,
\* stamped with the time of the call that created it.
C15_Lifecycle ==
    [][\A old \in {StoredInstances(fs)}, new \in {StoredInstances(fs')} :
          /\ \A K \in DOMAIN old :
                /\ K \in DOMAIN new
                /\ new[K].created_at = old[K].created_at
                /\ new[K].game_config = old[K].game_config
          /\ \A K \in (DOMAIN new) \ (DOMAIN old) :
                /\ new[K].game_config = GameConfig
                /\ \E t \in now..now' : new[K].created_at = IsoZ(t)]_vars

\* an activity created at the start is resolved again after its record has been
\* played and the snapshot has gone stale
C15_Witness ==
    /\ last.op = "resolve_user_url" /\ last.args[1] = "A" /\ last.read
    /\ now > Epoch + TTL
    /\ Lookup(StoredInstances(fs), "inst_A") # None
    /\ StoredInstances(fs)["inst_A"].created_at = IsoZ(Epoch)
    /\ StoredInstances(fs)["inst_A"].access_count = 1

C17_RegistryLossHarmless ==
    \A a \in DOMAIN registry :
        /\ \A u \in Players, d \in Delays :
              \E kept \in {resolve_user_url(World, registry, now, d, a, u)},
                 lost \in {resolve_user_url(World, <<>>, now, d, a, u)} :
                  /\ kept.ret = lost.ret
                  /\ kept.ret[1].instance_id = "inst_" \o a
                  /\ kept.w = lost.w
        /\ \A u \in Players, d1 \in Delays, d2 \in Delays :
              \E kept \in {track_game_access(World, registry, now, d1, d2, a, u)},
                 lost \in {track_game_access(World, <<>>, now, d1, d2, a, u)} :
                  /\ kept.w = lost.w
                  /\ kept.up = lost.up

\* an activity resolved at the start is played after the registry was cleared
C17_Witness ==
    /\ registry = <<>>
    /\ last.op = "track_game_access" /\ last.args[1] = "A"
    /\ Lookup(StoredInstances(fs), "inst_A") # None
    /\ StoredInstances(fs)["inst_A"].created_at = IsoZ(Epoch)
    /\ StoredInstances(fs)["inst_A"].access_count = 1
    /\ AccessOf(StoredInstances(fs), "A") > Epoch

\* the outcome the claim allows for a proxy call that ends in world w, given
\* the faults F the store showed
Propagated(w, F, mutating) ==
    LET readFails == F[1] # "none"
        writeFails == ~readFails /\ mutating /\ F[2][1] # "none"
    IN  /\ readFails => /\ w.err = "refresh"
                        /\ w.c = World.c
                        /\ w.ts = cache_ts
                        /\ w.fs = fs
        /\ writeFails => /\ w.err = "flush"
                         /\ StoreText(w.fs) = StoreText(fs)
        /\ (~readFails /\ ~writeFails) => w.err = ""

\* C18: storage failures propagate and are not retried.  In every reachable
\* state, a proxy call during which read_all fails ends with the refresh error
\* and leaves the cached snapshot, its timestamp and the files as they were; a
\* mutating call during which write_all fails ends with the flush error; a
\* reading call that failed returns no value; and a call ends without error
\* only when the store did not fail.
C18_FailuresPropagate ==
    \A F \in Faults(FaultInputs, TRUE) :
        /\ F[2][1] = "none" =>
              /\ \A id \in FaultInputs.ids :
                    \E r \in {get_instance(World, now, id, F[1])} :
                        /\ Propagated(r.w, F, FALSE)
                        /\ r.w.err # "" => r.ret = None
              /\ \A a \in FaultInputs.acts, u \in FaultInputs.users :
                    \E r \in {list_events(World, now, a, u, F[1])} :
                        /\ Propagated(r.w, F, FALSE)
                        /\ r.w.err # "" => r.ret = None
        /\ \A id \in FaultInputs.ids : \A payload \in Payloads(id) :
              Propagated(upsert_instance(World, now, id, payload, F[1], F[2]), F, TRUE)
        /\ \A event \in FaultInputs.events :
              Propagated(append_event(World, now, event, F[1], F[2]), F, TRUE)

\* a refresh failed on a proxy that held a stale snapshot, which it still holds
C18_Witness ==
    /\ last.op = "get_instance" /\ last.res = "refresh" /\ last.read
    /\ last.ret = None
    /\ ~last.cold
    /\ cache # 0
    /\ DOMAIN heap[cache].instances # {}
    /\ now - cache_ts > TTL

\* C19: get_instance of an unknown id.  In every reachable state, for every
\* instance id that the store does not hold, get_instance ends without an
\* error and returns None, the files are as they were, and the snapshot the
\* proxy holds afterwards is the stored one, instances and events alike: the
\* one it held before the call when it held one.
C19_UnknownIsNone ==
    \A stored \in {read_all(fs, "none")} :
        \A id \in InstanceIds \ DOMAIN stored.data.instances :
            \E r \in {get_instance(World, now, id, "none")} :
                /\ r.w.err = ""
                /\ r.ret = Some(None)
                /\ r.w.fs = fs
                /\ r.w.c = Some(stored.data)
                /\ World.c # None => r.w.c = World.c

\* get_instance returned None for an id the store lacks, while the store holds
\* another instance and an event, all still in the snapshot
C19_Witness ==
    /\ last.op = "get_instance" /\ last.res = "ok"
    /\ last.ret = Some(None)
    /\ last.args[1] \notin DOMAIN StoredInstances(fs)
    /\ DOMAIN StoredInstances(fs) # {}
    /\ Len(read_all(fs, "none").data.events) > 0
    /\ CacheVal = Some(read_all(fs, "none").data)

\* C20: first-use initialization.  In every reachable state: a database object
\* constructed where the data file does not exist (the reachable files with
\* the data file gone, a left-over temporary file or none) creates the file,
\* and the first read_all returns the empty snapshot, instances {} and
\* events []; constructed over the data file that exists, it leaves the files,
\* content included, as they were.
C20_FirstUse ==
    /\ \E db \in {JsonFileDatabase(Unlink(fs))} :
          /\ db.dir.store # 0
          /\ read_all(db, "none") = [ok |-> TRUE, data |-> EmptySnapshot]
    /\ fs.dir.store # 0 => JsonFileDatabase(fs) = fs

\* the process was restarted over a data file that holds an instance and an
\* event, next to a temporary file a failed write left behind
C20_Witness ==
    /\ last.op = "init"
    /\ cache = 0
    /\ fs.dir.store # 0 /\ fs.dir.tmp # 0
    /\ DOMAIN StoredInstances(fs) # {}
    /\ Len(read_all(fs, "none").data.events) > 0

\* the proxy of world w holds a snapshot, and read_all returns its equal
Consistent(w) ==
    /\ w.c # None
    /\ \E stored \in {read_all(w.fs, "none")} : stored.ok /\ w.c = Some(stored.data)

\* C23: cache/storage consistency with one call at a time.  In every reachable
\* state: when the last call was an upsert_instance or append_event that
\* returned, the snapshot the proxy holds is identical to the one on disk; and
\* when the held snapshot is identical to the one on disk, it is so again
\* after every get_instance and every list_events, served from the snapshot
\* or after a refresh.
C23_CacheMatchesStore ==
    /\ (last.op \in {"upsert_instance", "append_event"} /\ last.res = "ok") => Consistent(World)
    /\ Consistent(World) =>
          /\ \A id \in FaultInputs.ids :
                \E r \in {get_instance(World, now, id, "none")} :
                    r.w.err = "" /\ Consistent(r.w)
          /\ \A a \in FaultInputs.acts, u \in FaultInputs.users :
                \E r \in {list_events(World, now, a, u, "none")} :
                    r.w.err = "" /\ Consistent(r.w)

\* a read served from the held snapshot, which holds an instance and an event
\* and equals the one on disk
C23_Witness ==
    /\ last.op \in {"get_instance", "list_events"} /\ last.res = "ok" /\ ~last.read
    /\ Consistent(World)
    /\ DOMAIN heap[cache].instances # {}
    /\ Len(heap[cache].events) > 0

\* a call of method op is under way: a thread is inside it, or the step is
\* the whole call
Writing(op) ==
    \/ last'.op = op
    \/ \E t \in Threads : th[t].op = op /\ th[t].pc \notin {"idle", "done", "failed"}

\* the same for upsert_instance of one instance id
Upserting(id) ==
    \/ last'.op = "upsert_instance" /\ last'.args[1] = id
    \/ \E t \in Threads :
          /\ th[t].op = "upsert_instance" /\ th[t].arg[1] = id
          /\ th[t].pc \notin {"idle", "done", "failed"}

\* C24: write frame.  Whenever the data file is readable before and after a
\* step, the persisted event sequence changes only while an append_event is
\* under way, and the persisted entry of an instance id changes, appears or
\* disappears only while an upsert_instance of that id is under way.
C24_WriteFrame ==
    [][\A old \in {read_all(fs, "none")}, new \in {read_all(fs', "none")} :
          (old.ok /\ new.ok) =>
              /\ Writing("append_event") \/ new.data.events = old.data.events
              /\ \A id \in InstanceIds :
                    \/ Upserting(id)
                    \/ Lookup(new.data.instances, id) = Lookup(old.data.instances, id)]_vars

\* the number of game_access events of the activity in a list of events
RECURSIVE GameAccesses(_, _)
GameAccesses(events, activity_id) ==
    IF events = <<>> THEN 0
    ELSE (IF Head(events).type = "game_access" /\ Head(events).activityID = Some(activity_id)
          THEN 1 ELSE 0) + GameAccesses(Tail(events), activity_id)

\* C25: access/event agreement.  In every state reached by resolve_user_url
\* and track_game_access calls made one at a time over a store that does not
\* fail, starting from the empty store, for every activity the access_count of
\* its persisted instance (0 when there is none) equals the number of
\* persisted game_access events of that activity.
C25_AccessEventAgreement ==
    \A stored \in {read_all(fs, "none")} :
        /\ stored.ok
        /\ \A a \in Activities :
              CountOf(stored.data.instances, a) = GameAccesses(stored.data.events, a)

\* both activities were played, one of them twice, after being resolved
C25_Witness ==
    /\ last.op = "track_game_access"
    /\ CountOf(StoredInstances(fs), "A") = 2
    /\ GameAccesses(StoredEvents, "A") = 2
    /\ CountOf(StoredInstances(fs), "B") = 1
    /\ registry # <<>>

\* C26: resolve_user_url over an existing record.  In every reachable state,
\* for every activity whose instance record is persisted, every user and
\* every delay, resolve_user_url returns without error and without an upsert,
\* leaves the files as they were and the held snapshot equal to the persisted
\* one (access_count, last_access and the events included), and returns the
\* instance_id the record carries, which is the id the registry holds from
\* the earlier resolutions of the activity.
C26_ResolveExistingNoOp ==
    \A stored \in {read_all(fs, "none")} :
        \A a \in {b \in Activities : InstId(b) \in DOMAIN stored.data.instances} :
            \A u \in OptUsers, d \in Delays :
                \E r \in {resolve_user_url(World, registry, now, d, a, u)} :
                    /\ r.w.err = ""
                    /\ r.up = None
                    /\ r.w.fs = fs
                    /\ r.w.c = Some(stored.data)
                    /\ r.ret # None
                    /\ r.ret[1].instance_id = stored.data.instances[InstId(a)].instance_id
                    /\ a \in DOMAIN registry => r.ret[1].instance_id = registry[a]

\* an activity that was resolved and then played is resolved again: its record
\* still holds the access and the event is still the only one
C26_Witness ==
    /\ last.op = "resolve_user_url" /\ last.res = "ok" /\ last.args[1] = "A"
    /\ last.ret # None /\ last.ret[1].instance_id = "inst_A"
    /\ upserted["inst_A"] # None /\ upserted["inst_A"][1].access_count = 1
    /\ CountOf(StoredInstances(fs), "A") = 1
    /\ AccessOf(StoredInstances(fs), "A") >= Epoch
    /\ Len(StoredEvents) = 1
    /\ Lookup(registry, "A") = Some("inst_A")

\* the values a result gives for the metric of that name, over all its rows
MetricValues(result, name) ==
    UNION {{result[k].quantAnalytics[j].value :
               j \in {i \in 1..Len(result[k].quantAnalytics) :
                          result[k].quantAnalytics[i].name = name}} :
           k \in DOMAIN result}

\* the name and the result of the analytics call that returned last
LastQueryName == adapt_query(last.args[Len(last.args)])

LastResult == IF last.op = "query_analytics" THEN last.ret[1].result ELSE last.ret[1]

\* C22: events_count.  When an analytics query named "default" or
\* "events_count" has returned, its result holds events_count, and the value
\* is the number of all events recorded for the activity, whatever their
\* user.
C22_EventsCount ==
    (/\ last.op \in {"query_analytics", "get_analytics_for_activity"}
     /\ last.res = "ok"
     /\ LastQueryName \in {<<"default">>, <<"events_count">>})
    => MetricValues(LastResult, "events_count")
          = {Len(FilterEvents(StoredEvents, Some(last.args[1]), None))}

\* the query names some part of the program or of its specification gives a
\* meaning to
RecognizedNames ==
    {<<"default">>, <<"all">>, <<"access_count">>, <<"events_count">>, <<"user_events_count">>,
     <<"completed_words">>, <<"hints_used">>, <<"comment">>}
    \cup {<<n>> : n \in ListedAnalytics}

====
